---- MODULE Spec2Model ----
(***************************************************************************)
(* Automatic unit-merge pipeline of spikeinterface                         *)
(* (src/src/spikeinterface/curation/auto_merge.py).                        *)
(*                                                                         *)
(* Conventions                                                             *)
(*  - unit, bin, sample and channel indices are 0-based as in the source;  *)
(*  - a float is an exact rational <<num, den>> with den > 0; the value    *)
(*    <<0, 0>> is NaN (what 0/0 yields in numpy).  Comparisons with NaN    *)
(*    are FALSE, as in IEEE arithmetic;                                    *)
(*  - times are integers in units of 0.01 ms, contaminations and           *)
(*    thresholds between 0 and 1 are rationals.                            *)
(***************************************************************************)
EXTENDS Integers, Sequences, FiniteSets, TLC

(***************************************************************************)
(* Bounds of the model                                                     *)
(***************************************************************************)
NumUnits == 3
MaxSteps == 2

Units == 0 .. (NumUnits - 1)

(***************************************************************************)
(* Exact rational arithmetic standing for float64                          *)
(***************************************************************************)
Abs(x) == IF x < 0 THEN -x ELSE x

RECURSIVE GCD(_, _)
GCD(a, b) == IF b = 0 THEN a ELSE GCD(b, a % b)

NaN == <<0, 0>>
IsNaN(x) == x[2] = 0

Rat(n, d) ==
    IF d = 0 THEN NaN
    ELSE LET g == GCD(Abs(n), Abs(d))
             s == IF d < 0 THEN -1 ELSE 1
         IN  <<(s * n) \div g, (s * d) \div g>>

RInt(n) == <<n, 1>>
RAdd(x, y) == IF IsNaN(x) \/ IsNaN(y) THEN NaN
              ELSE Rat(x[1] * y[2] + y[1] * x[2], x[2] * y[2])
RSub(x, y) == IF IsNaN(x) \/ IsNaN(y) THEN NaN
              ELSE Rat(x[1] * y[2] - y[1] * x[2], x[2] * y[2])
RMul(x, y) == IF IsNaN(x) \/ IsNaN(y) THEN NaN
              ELSE Rat(x[1] * y[1], x[2] * y[2])
\* x / y; only 0/0 occurs with a zero divisor in the modelled code
RDiv(x, y) == IF IsNaN(x) \/ IsNaN(y) THEN NaN
              ELSE Rat(x[1] * y[2], x[2] * y[1])
RLt(x, y) == ~IsNaN(x) /\ ~IsNaN(y) /\ x[1] * y[2] < y[1] * x[2]
RLe(x, y) == ~IsNaN(x) /\ ~IsNaN(y) /\ x[1] * y[2] <= y[1] * x[2]
RGt(x, y) == RLt(y, x)
RGe(x, y) == RLe(y, x)
REq(x, y) == ~IsNaN(x) /\ ~IsNaN(y) /\ x[1] * y[2] = y[1] * x[2]

\* An array is computed once when it is built, as numpy does (function
\* constructors are otherwise re-evaluated at every access).
Array(f) == IF f = f THEN f ELSE f

(***************************************************************************)
(* get_potential_auto_merge: configuration                                 *)
(***************************************************************************)
all_steps ==
    << "min_spikes", "remove_contaminated", "unit_positions", "correlogram",
       "template_similarity", "presence_distance", "knn",
       "cross_contamination", "check_increase_score" >>

RecognizedSteps == { all_steps[k] : k \in 1 .. Len(all_steps) }

\* as PresetSteps, the lussac preset keeping the correlogram stage
PresetStepsLussacKeepsCorrelogram(preset) ==
    IF preset = "lussac" THEN
        << "min_spikes", "remove_contaminated", "unit_positions",
           "template_similarity", "correlogram", "cross_contamination",
           "check_increase_score" >>
    ELSE IF preset = "temporal_splits" THEN
        << "min_spikes", "remove_contaminated", "unit_positions",
           "template_similarity", "correlogram", "presence_distance",
           "check_increase_score" >>
    ELSE IF preset = "None" THEN
        << "min_spikes", "remove_contaminated", "unit_positions",
           "template_similarity", "correlogram", "check_increase_score" >>
    ELSE
        << "min_spikes", "remove_contaminated", "unit_positions", "knn",
           "correlogram", "check_increase_score" >>

PresetSteps(preset) ==
    IF preset = "None" THEN
        << "min_spikes", "remove_contaminated", "unit_positions",
           "template_similarity", "correlogram", "check_increase_score" >>
    ELSE IF preset = "temporal_splits" THEN
        << "min_spikes", "remove_contaminated", "unit_positions",
           "template_similarity", "correlogram", "presence_distance",
           "check_increase_score" >>
    ELSE IF preset = "lussac" THEN
        << "min_spikes", "remove_contaminated", "unit_positions",
           "template_similarity", "cross_contamination",
           "check_increase_score" >>
    ELSE
        << "min_spikes", "remove_contaminated", "unit_positions", "knn",
           "correlogram", "check_increase_score" >>

KnownPresets == { "None", "temporal_splits", "lussac", "knn" }

(***************************************************************************)
(* Call parameters of get_potential_auto_merge (defaults of the signature) *)
(***************************************************************************)
minimum_spikes == 100
maximum_distance_um == 150
contamination_threshold == <<1, 5>>
corr_diff_thresh == <<4, 25>>
template_diff_thresh == <<1, 4>>
presence_distance_thresh == 100
p_value == <<1, 5>>
firing_contamination_balance == <<5, 2>>

(***************************************************************************)
(* State                                                                   *)
(***************************************************************************)
VARIABLES
    analyzer,        \* the SortingAnalyzer: sorting data and cached extensions
    args,            \* arguments of the running call
    pc,              \* "idle", "loop", "done", "error"
    steps,           \* the resolved stage list the loop iterates over
    step_i,          \* 1-based position of the loop in steps
    pair_mask,       \* the candidate matrix
    outs,            \* diagnostics dictionary
    contaminations,  \* local variable, bound by the remove_contaminated stage
    executed,        \* stages that have run to completion in this call
    error,           \* the exception that ended the call, "" when none
    result,          \* what the call returned
    call_no,         \* number of the running call on this analyzer
    first_result,    \* what the first call returned
    first_args,      \* arguments of the first call, once a second one is made
    aw,              \* a call of get_unit_adaptive_window and its recursion
    td,              \* a call of compute_templates_diff
    cs,              \* a call of check_improve_contaminations_score
    nz,              \* normalize_correlogram applied once, then again
    th,              \* a threshold comparison of one stage on its own
    cm               \* a CircusMerging object and its run()

vars == << analyzer, args, pc, steps, step_i, pair_mask, outs, contaminations,
           executed, error, result, call_no, first_result, first_args,
           aw, td, cs, nz, th, cm >>

(***************************************************************************)
(* Candidate matrix                                                        *)
(***************************************************************************)
\* as InitialPairMask, np.triu forgotten: np.arange(n) > 0 on every row
InitialPairMaskNoTriu == [i \in Units |-> [j \in Units |-> j > 0]]

\* pair_mask = np.triu(np.arange(n)) > 0: np.triu broadcasts the row arange(n)
\* to n x n and zeroes the entries strictly below the diagonal
InitialPairMask ==
    [i \in Units |-> [j \in Units |-> (IF i > j THEN 0 ELSE j) > 0]]

\* as ClearUnits, without pair_mask[:, to_remove] = False
ClearRows(mask, to_remove) ==
    [i \in Units |-> [j \in Units |->
        IF to_remove[i] THEN FALSE ELSE mask[i][j]]]

\* pair_mask[to_remove, :] = False ; pair_mask[:, to_remove] = False
ClearUnits(mask, to_remove) ==
    [i \in Units |-> [j \in Units |->
        IF to_remove[i] \/ to_remove[j] THEN FALSE ELSE mask[i][j]]]

\* as MaskAnd, with | written for &
MaskOr(mask, keep) ==
    [i \in Units |-> [j \in Units |-> mask[i][j] \/ keep[i][j]]]

\* pair_mask & keep
MaskAnd(mask, keep) ==
    [i \in Units |-> [j \in Units |-> mask[i][j] /\ keep[i][j]]]

TrueCount(mask) == Cardinality({ p \in Units \X Units : mask[p[1]][p[2]] })

\* STEP 1
min_spikes_stage(mask, num_spikes) ==
    ClearUnits(mask, [u \in Units |-> num_spikes[u] < minimum_spikes])

\* STEP 2
remove_contaminated_stage(mask, contam) ==
    ClearUnits(mask, [u \in Units |-> RGt(contam[u], contamination_threshold)])

\* scipy.spatial.distance.cdist(..., metric="euclidean"); the entry holds the
\* squared distance, standing for its square root
cdist(locs) ==
    [i \in Units |-> [j \in Units |->
        (locs[i][1] - locs[j][1]) * (locs[i][1] - locs[j][1])
      + (locs[i][2] - locs[j][2]) * (locs[i][2] - locs[j][2])]]

\* sqrt(d2) <= bound
EuclidLe(d2, bound) == d2 <= bound * bound

\* STEP 3: locations from the extension, else from the extremum channel
UnitLocations(a) ==
    IF a.has_unit_locations THEN a.unit_locations
    ELSE [u \in Units |-> a.chan_loc[a.unit_max_chan[u]]]

unit_positions_stage(mask, unit_distances) ==
    MaskAnd(mask, [i \in Units |-> [j \in Units |->
                     EuclidLe(unit_distances[i][j], maximum_distance_um)]])

(***************************************************************************)
(* Correlogram engine                                                      *)
(***************************************************************************)
\* half the number of correlogram bins (window_ms / bin_ms)
HalfBins == 3
NumBins == 2 * HalfBins
Bins == 0 .. (NumBins - 1)

\* times in 0.01 ms
bin_ms == 100
censor_correlograms_ms == 15
adaptative_window_threshold == <<1, 2>>

\* bin edges returned with the correlograms: NumBins + 1 edges around lag 0
bins == [k \in 0 .. NumBins |-> (k - HalfBins) * bin_ms]

\* mask = (bins[:-1] >= -censor_correlograms_ms) & (bins[:-1] < censor_correlograms_ms)
CensorMask ==
    [k \in Bins |-> bins[k] >= -censor_correlograms_ms
                    /\ bins[k] < censor_correlograms_ms]

\* correlograms[:, :, mask] = 0
Censor(ccgs) ==
    Array([i \in Units |-> [j \in Units |-> [k \in Bins |->
        IF CensorMask[k] THEN 0 ELSE ccgs[i][j][k]]]])

\* smooth_kernel = exp(-bins**2 / (2 * sigma_smooth_ms**2)) for sigma 0.6 ms and
\* 1 ms bins, in fixed point with 4 for the weight 1: 1, 0.249, 0.004 at the
\* lags 0, 1, 2.  The division by the kernel's sum is a common positive factor
\* of every smoothed value; the smoothed values are held in units of 1/6.
KernelWeight(d) == IF d = 0 THEN 4 ELSE IF d = 1 THEN 1 ELSE 0

smooth_kernel == [k \in 0 .. NumBins |-> KernelWeight(Abs(k - HalfBins))]

RECURSIVE SumOver(_, _)
SumOver(f, S) ==
    IF S = {} THEN 0
    ELSE LET x == CHOOSE y \in S : TRUE IN f[x] + SumOver(f, S \ {x})

\* scipy.signal.fftconvolve(c, kernel, mode="same") along the bin axis: the
\* full convolution has 2 * NumBins entries, the centered NumBins are kept
ConvolveSame(c) ==
    Array([k \in Bins |->
        SumOver([j \in Bins |->
                    IF (k + HalfBins - j) \in 0 .. NumBins
                    THEN c[j] * smooth_kernel[k + HalfBins - j] ELSE 0],
                Bins)])

smooth_correlogram(ccgs) ==
    IF NumUnits = 0 THEN ccgs
    ELSE Array([i \in Units |-> [j \in Units |-> ConvolveSame(ccgs[i][j])]])

\* np.gradient(f) times 2: central differences inside, one-sided at the ends
Gradient2(f, n) ==
    Array([k \in 0 .. (n - 1) |->
        IF k = 0 THEN 2 * (f[1] - f[0])
        ELSE IF k = n - 1 THEN 2 * (f[n - 1] - f[n - 2])
        ELSE f[k + 1] - f[k - 1]])

\* derivative_2 = -np.gradient(np.gradient(auto_corr)), times 4
derivative_2(ac, n) ==
    LET g == Gradient2(Gradient2(ac, n), n)
    IN  Array([k \in 0 .. (n - 1) |-> -g[k]])

\* scipy.signal.find_peaks(x)[0]: the middle of every plateau that is higher
\* than both its neighbours; the first and the last sample are never peaks
find_peaks(x, n) ==
    { (l + r) \div 2 : <<l, r>> \in
        { q \in (1 .. (n - 2)) \X (1 .. (n - 2)) :
            /\ q[1] <= q[2]
            /\ \A k \in q[1] .. q[2] : x[k] = x[q[1]]
            /\ x[q[1] - 1] < x[q[1]]
            /\ x[q[2] + 1] < x[q[1]] } }

SetMax(S) == CHOOSE x \in S : \A y \in S : y <= x

\* the peaks kept by one call of get_unit_adaptive_window
KeptPeaks(ac, n, threshold) ==
    { p \in find_peaks(derivative_2(ac, n), n) :
        /\ RGe(RInt(ac[p]), threshold)
        /\ p < n \div 2 }

AllZero(ac, n) == SumOver([k \in 0 .. (n - 1) |-> Abs(ac[k])], 0 .. (n - 1)) = 0

\* window returned for an identically-zero auto-correlogram
FallbackWindow == 20

\* depth of recursion after which the interpreter raises RecursionError
RecursionLimit == 8
RecursionError == -1

RECURSIVE get_unit_adaptive_window(_, _, _, _)
get_unit_adaptive_window(ac, n, threshold, depth) ==
    IF AllZero(ac, n) THEN FallbackWindow
    ELSE LET peaks == KeptPeaks(ac, n, threshold) IN
         IF peaks = {} THEN
            IF depth >= RecursionLimit THEN RecursionError
            ELSE get_unit_adaptive_window(ac, n, RDiv(threshold, RInt(2)), depth + 1)
         ELSE n \div 2 - SetMax(peaks)

\* thresh = np.max(auto_corr) * adaptative_window_threshold
WindowThreshold(ac, n) ==
    RMul(RInt(SetMax({ ac[k] : k \in 0 .. (n - 1) })), adaptative_window_threshold)

WinSizes(smoothed) ==
    Array([u \in Units |->
        get_unit_adaptive_window(smoothed[u][u], NumBins,
                                 WindowThreshold(smoothed[u][u], NumBins), 0)])

\* normalize_correlogram: (numerators, common denominator) of correlogram / mean
normalize_correlogram(c) ==
    LET total == SumOver(c, Bins) IN
    IF total = 0 THEN [num |-> c, den |-> 1]
    ELSE [num |-> Array([k \in Bins |-> c[k] * NumBins]), den |-> total]

\* Python's round(p / q) for q > 0: halves go to the even neighbour
RoundHalfEven(p, q) ==
    LET fl == p \div q
        r  == p % q
    IN  IF 2 * r < q THEN fl
        ELSE IF 2 * r > q THEN fl + 1
        ELSE IF fl % 2 = 0 THEN fl ELSE fl + 1

\* win_size = int(round((num1 * win1 + num2 * win2) / (num1 + num2)))
PairWindow(num1, win1, num2, win2) ==
    RoundHalfEven(num1 * win1 + num2 * win2, num1 + num2)

\* corr_inds = np.arange(m - win_size, m + win_size)
CorrInds(win_size) == (HalfBins - win_size) .. (HalfBins + win_size - 1)

\* an index numpy accepts for an array of NumBins entries
ValidIndex(k) == k >= -NumBins /\ k < NumBins
WrapIndex(k) == IF k < 0 THEN k + NumBins ELSE k

\* np.sum(np.abs(cross[corr_inds] - auto[corr_inds])) / len(corr_inds)
SideDiff(cross, auto, inds) ==
    Rat(SumOver([k \in inds |->
                    Abs(cross.num[WrapIndex(k)] * auto.den
                        - auto.num[WrapIndex(k)] * cross.den)], inds),
        cross.den * auto.den * Cardinality(inds))

\* w_diff = (num1 * diff1 + num2 * diff2) / (num1 + num2)
WeightedDiff(num1, diff1, num2, diff2) ==
    IF IsNaN(diff1) \/ IsNaN(diff2) THEN NaN
    ELSE Rat(num1 * diff1[1] * diff2[2] + num2 * diff2[1] * diff1[2],
             (num1 + num2) * diff1[2] * diff2[2])

PairCorrDiff(smoothed, win_sizes, num_spikes, i, j) ==
    LET inds  == CorrInds(PairWindow(num_spikes[i], win_sizes[i],
                                     num_spikes[j], win_sizes[j]))
        auto1 == normalize_correlogram(smoothed[i][i])
        auto2 == normalize_correlogram(smoothed[j][j])
        cross == normalize_correlogram(smoothed[i][j])
    IN  WeightedDiff(num_spikes[i], SideDiff(cross, auto1, inds),
                     num_spikes[j], SideDiff(cross, auto2, inds))

compute_correlogram_diff(smoothed, win_sizes, num_spikes, mask) ==
    [i \in Units |-> [j \in Units |->
        IF i < j /\ mask[i][j]
        THEN PairCorrDiff(smoothed, win_sizes, num_spikes, i, j)
        ELSE NaN]]

\* the exception raised while the pair (i, j) is computed, "" when none
PairCorrError(win_sizes, num_spikes, i, j) ==
    IF num_spikes[i] + num_spikes[j] = 0 THEN "ValueError"
    ELSE IF \E k \in CorrInds(PairWindow(num_spikes[i], win_sizes[i],
                                         num_spikes[j], win_sizes[j])) :
                ~ValidIndex(k)
         THEN "IndexError"
    ELSE ""

\* the exception the correlogram stage ends with, "" when it completes: the
\* windows are computed first, then the pairs in row-major order
CorrelogramError(smoothed, num_spikes, mask) ==
    LET win_sizes == WinSizes(smoothed)
        failing == { q \in Units \X Units :
                        /\ q[1] < q[2] /\ mask[q[1]][q[2]]
                        /\ PairCorrError(win_sizes, num_spikes, q[1], q[2]) # "" }
    IN  IF \E u \in Units : win_sizes[u] = RecursionError THEN "RecursionError"
        ELSE IF failing = {} THEN ""
        ELSE LET first == CHOOSE q \in failing : \A r \in failing :
                              q[1] * NumUnits + q[2] <= r[1] * NumUnits + r[2]
             IN  PairCorrError(win_sizes, num_spikes, first[1], first[2])

\* as correlogram_stage, with <= written for <
CorrelogramStageAtMost(mask, correlogram_diff) ==
    MaskAnd(mask, [i \in Units |-> [j \in Units |->
                     RLe(correlogram_diff[i][j], corr_diff_thresh)]])

\* pair_mask & (correlogram_diff < corr_diff_thresh)
correlogram_stage(mask, correlogram_diff) ==
    MaskAnd(mask, [i \in Units |-> [j \in Units |->
                     RLt(correlogram_diff[i][j], corr_diff_thresh)]])

(***************************************************************************)
(* Template engine                                                         *)
(***************************************************************************)
\* largest shift explored; the templates have 2 * MaxShift + 2 samples
MaxShift == 1
NumSamples == 2 * MaxShift + 2
NumChans == 2
Samples == 0 .. (NumSamples - 1)
Chans == 0 .. (NumChans - 1)

\* num_channels=None
NoChannelCount == -1

TemplateMetrics == { "l1", "l2", "cosine" }

\* A template distance is the real number c + s * sqrt(q), q a rational:
\* l1 gives a rational r (c = 0, s its sign, q = r * r), l2 gives
\* sqrt(D) / norm, cosine gives 1 - S / sqrt(P).  q = NaN makes it NaN.
Sign(x) == IF x > 0 THEN 1 ELSE IF x < 0 THEN -1 ELSE 0
Surd(c, s, q) == [c |-> c, s |-> IF IsNaN(q) THEN 0 ELSE s, q |-> q]
SurdNaN == Surd(0, 0, NaN)
SurdOfRat(r) == Surd(0, Sign(r[1]), RMul(r, r))
SurdIsNaN(x) == IsNaN(x.q)

\* x < t for a rational t
SurdLt(x, t) ==
    LET u == RSub(t, RInt(x.c)) IN
    /\ ~SurdIsNaN(x) /\ ~IsNaN(t)
    /\ IF x.s = 0 \/ x.q[1] = 0 THEN u[1] > 0
       ELSE IF x.s > 0 THEN u[1] > 0 /\ RLt(x.q, RMul(u, u))
       ELSE u[1] > 0 \/ RGt(x.q, RMul(u, u))

\* x = n for an integer n
SurdEqInt(x, n) ==
    /\ ~SurdIsNaN(x)
    /\ IF x.s = 0 \/ x.q[1] = 0 THEN x.c = n
       ELSE /\ Sign(n - x.c) = x.s
            /\ REq(x.q, RInt((n - x.c) * (n - x.c)))

\* np.max(np.abs(template1 + template2), axis=0)
ChannelAmplitude(t1, t2) ==
    [c \in Chans |-> SetMax({ Abs(t1[k][c] + t2[k][c]) : k \in Samples })]

\* np.argsort(amp)[::-1][:num_channels]: the channels in decreasing order of
\* (amplitude, index), cut after num_channels of them (all of them for None)
BestChannels(amp, num_channels) ==
    { c \in Chans :
        \/ num_channels = NoChannelCount
        \/ Cardinality({ d \in Chans :
                           \/ amp[d] > amp[c]
                           \/ (amp[d] = amp[c] /\ d > c) }) < num_channels }

\* as CommonChannels, with + written for *: the union of the two masks
EitherChannels(mask1, mask2) == { c \in Chans : mask1[c] \/ mask2[c] }

\* np.flatnonzero(sparsity_mask[unit_ind1] * sparsity_mask[unit_ind2])
CommonChannels(mask1, mask2) == { c \in Chans : mask1[c] /\ mask2[c] }

\* adaptative_masks = num_channels == None, only when a sparsity is given
AdaptativeMasks(num_channels, has_sparsity) ==
    has_sparsity /\ num_channels = NoChannelCount

chan_inds(t1, t2, mask1, mask2, num_channels, has_sparsity) ==
    IF ~AdaptativeMasks(num_channels, has_sparsity)
    THEN BestChannels(ChannelAmplitude(t1, t2), num_channels)
    ELSE CommonChannels(mask1, mask2)

Cells(rows, chans) == rows \X chans

SumCells(f, cells) == SumOver([q \in cells |-> f[q[1]][q[2]]], cells)

AbsT(t) == [k \in Samples |-> [c \in Chans |-> Abs(t[k][c])]]
SquareT(t) == [k \in Samples |-> [c \in Chans |-> t[k][c] * t[k][c]]]

\* temp1 - temp2 and temp1 * temp2 for temp1 = template1[num_shift : -num_shift]
\* and temp2 = template2[num_shift + shift : num_samples - num_shift + shift],
\* indexed by the sample of temp1
ShiftDiff(t1, t2, shift) ==
    [k \in Samples |-> [c \in Chans |->
        IF (k + shift) \in Samples THEN t1[k][c] - t2[k + shift][c] ELSE 0]]
ShiftProd(t1, t2, shift) ==
    [k \in Samples |-> [c \in Chans |->
        IF (k + shift) \in Samples THEN t1[k][c] * t2[k + shift][c] ELSE 0]]

SetMin(S) == CHOOSE x \in S : \A y \in S : x <= y

\* np.min(all_shift_diff) for one pair on the channels chans
PairTemplateDiff(t1, t2, chans, num_shift, template_metric) ==
    LET all   == Cells(Samples, chans)
        core  == Cells(num_shift .. (NumSamples - num_shift - 1), chans)
        shifts == (-num_shift) .. num_shift
    IN
    IF chans = {} THEN Surd(1, 0, RInt(0))
    ELSE IF template_metric = "l1" THEN
        LET norm == SumCells(AbsT(t1), all) + SumCells(AbsT(t2), all)
            d == SetMin({ SumCells(AbsT(ShiftDiff(t1, t2, sh)), core) : sh \in shifts })
        IN  IF norm = 0 THEN SurdNaN ELSE SurdOfRat(Rat(d, norm))
    ELSE IF template_metric = "l2" THEN
        LET norm == SumCells(SquareT(t1), all) + SumCells(SquareT(t2), all)
            d == SetMin({ SumCells(SquareT(ShiftDiff(t1, t2, sh)), core) : sh \in shifts })
        IN  IF norm = 0 THEN SurdNaN
            ELSE Surd(0, Sign(d), Rat(d, norm * norm))
    ELSE
        LET prod == SumCells(SquareT(t1), all) * SumCells(SquareT(t2), all)
            sm == SetMax({ SumCells(ShiftProd(t1, t2, sh), core) : sh \in shifts })
        IN  IF prod = 0 THEN SurdNaN
            ELSE Surd(1, -Sign(sm), Rat(sm * sm, prod))

compute_templates_diff(templates_array, num_channels, num_shift, mask, template_metric, has_sparsity, sparsity_mask) ==
    [i \in Units |-> [j \in Units |->
        IF i < j /\ mask[i][j]
        THEN PairTemplateDiff(
                templates_array[i], templates_array[j],
                chan_inds(templates_array[i], templates_array[j],
                          sparsity_mask[i], sparsity_mask[j],
                          num_channels, has_sparsity),
                num_shift, template_metric)
        ELSE SurdNaN]]

\* templates_diff = 1 - templates_similarity, from the cached extension
SimilarityDiff(templates_similarity) ==
    [i \in Units |-> [j \in Units |->
        SurdOfRat(RSub(RInt(1), templates_similarity[i][j]))]]

\* pair_mask & (templates_diff < template_diff_thresh)
template_similarity_stage(mask, templates_diff) ==
    MaskAnd(mask, [i \in Units |-> [j \in Units |->
                     SurdLt(templates_diff[i][j], template_diff_thresh)]])

(***************************************************************************)
(* Nearest-neighbour, presence and cross-contamination stages              *)
(***************************************************************************)
\* chan_inds[best_indices]: the units met among the neighbours of the spikes
\* of unit u, without the one met most often (argsort, reversed, [1:])
KnnKept(counts) ==
    LET met == { v \in Units : counts[v] > 0 }
        top == { v \in met : \A w \in met :
                    counts[w] < counts[v] \/ (counts[w] = counts[v] /\ w <= v) }
    IN  met \ top

\* get_pairs_via_nntree: pair_mask[unit_ind] &= np.isin(np.arange(n), kept)
get_pairs_via_nntree(mask, knn_counts) ==
    [i \in Units |-> [j \in Units |->
        mask[i][j] /\ j \in KnnKept(knn_counts[i])]]

\* compute_presence_distance: a distance for every candidate pair
compute_presence_distance(presence, mask) ==
    [i \in Units |-> [j \in Units |->
        IF mask[i][j] THEN RInt(presence[i][j]) ELSE NaN]]

\* as presence_distance_stage, with >= written for >
PresenceStageAtLeast(mask, presence_distances) ==
    MaskAnd(mask, [i \in Units |-> [j \in Units |->
                     RGe(presence_distances[i][j], RInt(presence_distance_thresh))]])

\* pair_mask & (presence_distances > presence_distance_thresh)
presence_distance_stage(mask, presence_distances) ==
    MaskAnd(mask, [i \in Units |-> [j \in Units |->
                     RGt(presence_distances[i][j], RInt(presence_distance_thresh))]])

\* compute_cross_contaminations: CC and p_values start as zeros and are
\* filled for the candidate pairs above the diagonal
compute_cross_contaminations(estimate, mask) ==
    [i \in Units |-> [j \in Units |->
        IF i < j /\ mask[i][j] THEN estimate[i][j] ELSE RInt(0)]]

\* pair_mask & (p_values > p_value)
cross_contamination_stage(mask, p_values) ==
    MaskAnd(mask, [i \in Units |-> [j \in Units |->
                     RGt(p_values[i][j], p_value)]])

(***************************************************************************)
(* Quality-score validator                                                 *)
(***************************************************************************)
\* f * (1 - (k + 1) * c)
Score(f, c, k) ==
    RMul(RInt(f), RSub(RInt(1), RMul(RAdd(k, RInt(1)), c)))

\* as ScoreDecreased, with <= written for <
ScoreNotIncreased(score_new, score_1, score_2) ==
    ~RLt(score_1, score_new) \/ ~RLt(score_2, score_new)

\* if score_new < score_1 or score_new < score_2
ScoreDecreased(score_new, score_1, score_2) ==
    RLt(score_new, score_1) \/ RLt(score_new, score_2)

\* the entry (ind1, ind2) is cleared by check_improve_contaminations_score
PairRejected(a, contam, k, ind1, ind2) ==
    ScoreDecreased(
        Score(a.merged_firing_rates[ind1][ind2], a.merged_contaminations[ind1][ind2], k),
        Score(a.firing_rates[ind1], contam[ind1], k),
        Score(a.firing_rates[ind2], contam[ind2], k))

\* np.nonzero(mask): the True entries in row-major order
RECURSIVE NonZeroFrom(_, _)
NonZeroFrom(mask, pos) ==
    IF pos >= NumUnits * NumUnits THEN << >>
    ELSE LET i == pos \div NumUnits
             j == pos % NumUnits
         IN  (IF mask[i][j] THEN << <<i, j>> >> ELSE << >>)
             \o NonZeroFrom(mask, pos + 1)

NonZero(mask) == NonZeroFrom(mask, 0)

\* as RejectedPairs, the append written outside the if: every pair is listed
RejectedPairsUnguarded(a, contam, k, idx_pairs) == idx_pairs

\* the pairs of idx_pairs, in order, whose entry the score stage clears
RejectedPairs(a, contam, k, idx_pairs) ==
    LET F[n \in 0 .. Len(idx_pairs)] ==
            IF n = 0 THEN << >>
            ELSE IF PairRejected(a, contam, k, idx_pairs[n][1], idx_pairs[n][2])
                 THEN Append(F[n - 1], idx_pairs[n])
                 ELSE F[n - 1]
    IN  F[Len(idx_pairs)]

\* as UnitIdPairs, with zip(unit_ids[ind2], unit_ids[ind1])
UnitIdPairsSwapped(a, idx_pairs) ==
    [k \in 1 .. Len(idx_pairs) |->
        <<a.unit_ids[idx_pairs[k][2]], a.unit_ids[idx_pairs[k][1]]>>]

\* list(zip(unit_ids[ind1], unit_ids[ind2]))
UnitIdPairs(a, idx_pairs) ==
    [k \in 1 .. Len(idx_pairs) |->
        <<a.unit_ids[idx_pairs[k][1]], a.unit_ids[idx_pairs[k][2]]>>]

\* returns (pair_mask, pairs_removed); works on a copy of the mask
check_improve_contaminations_score(a, mask, contam, k) ==
    [ pair_mask |->
        [i \in Units |-> [j \in Units |->
            mask[i][j] /\ ~PairRejected(a, contam, k, i, j)]],
      pairs_removed |-> UnitIdPairs(a, RejectedPairs(a, contam, k, NonZero(mask))) ]

\* potential_merges = list(zip(unit_ids[ind1], unit_ids[ind2]))
potential_merges(a, mask) == UnitIdPairs(a, NonZero(mask))

(***************************************************************************)
(* The analyzers and the calls explored                                    *)
(***************************************************************************)
\* waveforms: trough and rebound on one channel, a weaker copy on the next
Waveform(u, chan) ==
    [k \in Samples |-> [c \in Chans |->
        IF c = chan THEN (IF k = 1 THEN -8 ELSE IF k = 2 THEN 4 - (u % 2) ELSE 0)
        ELSE IF c = chan + 1 THEN (IF k = 1 THEN -4 ELSE 0)
        ELSE 0]]

\* exts: "all" extensions computed, only "templates", or "none";
\* low: the unit with too few spikes and a contaminated train, -1 for none;
\* corr: the auto-correlogram of the last unit
MakeAnalyzer(exts, low, corr) ==
    LET Last == NumUnits - 1
        Similar(i, j) == i # Last /\ j # Last
        \* raw correlogram counts, symmetric in the lag: a regular unit, a
        \* bursting one, one that fires only at long lags, a flat one and a
        \* silent one
        Lag(k) == IF k < HalfBins THEN HalfBins - 1 - k ELSE k - HalfBins
        RegularCorr == [k \in Bins |->
            IF Lag(k) <= 1 THEN 2 ELSE IF Lag(k) = 2 THEN 1 ELSE 0]
        BurstCorr == [k \in Bins |-> IF Lag(k) = 0 THEN 2 ELSE 0]
        LateCorr == [k \in Bins |-> IF Lag(k) = 2 THEN 2 ELSE 0]
        FlatCorr == [k \in Bins |-> 1]
        ZeroCorr == [k \in Bins |-> 0]
        ccgs == [i \in Units |-> [j \in Units |->
                    IF Similar(i, j) THEN RegularCorr
                    ELSE IF i = Last /\ j = Last THEN
                        (IF corr = "late" THEN LateCorr
                         ELSE IF corr = "zero" THEN ZeroCorr ELSE BurstCorr)
                    ELSE FlatCorr]]
    IN
    [ unit_ids |-> [u \in Units |-> 10 + u],
      num_spikes |-> [u \in Units |->
            IF u = low THEN minimum_spikes - 1 ELSE minimum_spikes + (u % 2)],
      contaminations |-> [u \in Units |-> IF u = low THEN <<3, 10>> ELSE <<1, 10>>],
      firing_rates |-> [u \in Units |-> 10 + u],
      has_unit_locations |-> exts = "all",
      unit_locations |-> [u \in Units |-> <<100 * u, 0>>],
      chan_loc |-> [c \in Chans |-> <<0, 40 * c>>],
      unit_max_chan |-> [u \in Units |-> IF u = Last THEN NumChans - 1 ELSE 0],
      has_correlograms |-> exts = "all",
      correlograms |-> ccgs,
      sorting_ccgs |-> ccgs,
      has_template_similarity |-> exts = "all",
      templates_similarity |-> [i \in Units |-> [j \in Units |->
            IF i = j THEN <<1, 1>>
            ELSE IF Similar(i, j) THEN <<9, 10>> ELSE <<1, 10>>]],
      has_templates |-> exts # "none",
      templates |-> [u \in Units |->
            Waveform(u, IF u = Last THEN NumChans - 1 ELSE 0)],
      has_sparsity |-> exts = "all",
      sparsity_mask |-> [u \in Units |-> [c \in Chans |->
            IF u = Last THEN c = NumChans - 1 ELSE c < NumChans - 1]],
      has_knn |-> exts = "all",
      knn_counts |-> [u \in Units |-> [v \in Units |->
            IF v = u THEN 5 ELSE IF Similar(u, v) THEN 3 ELSE 0]],
      presence |-> [i \in Units |-> [j \in Units |->
            IF Similar(i, j) THEN 120 ELSE 100]],
      cc_p_values |-> [i \in Units |-> [j \in Units |->
            IF Similar(i, j) THEN <<1, 2>> ELSE <<1, 10>>]],
      merged_firing_rates |-> [i \in Units |-> [j \in Units |->
            IF i = j THEN 10 + i ELSE 20 + i + j]],
      merged_contaminations |-> [i \in Units |-> [j \in Units |->
            IF Similar(i, j) THEN <<1, 10>> ELSE <<3, 10>>]] ]

Analyzers ==
    { MakeAnalyzer("all", -1, "burst"), MakeAnalyzer("all", 0, "burst"),
      MakeAnalyzer("templates", -1, "burst"), MakeAnalyzer("none", -1, "burst"),
      MakeAnalyzer("all", -1, "late"), MakeAnalyzer("templates", -1, "zero"),
      MakeAnalyzer("all", 1, "burst") }

RECURSIVE SeqsUpTo(_, _)
SeqsUpTo(S, n) ==
    IF n = 0 THEN { << >> }
    ELSE LET shorter == SeqsUpTo(S, n - 1)
         IN  shorter \cup { Append(sq, x) : sq \in shorter, x \in S }

\* (template_metric, extra_outputs, preset) of the calls that give steps
Options ==
    { <<"l1", FALSE, "None">>, <<"l1", TRUE, "lussac">>,
      <<"cosine", FALSE, "None">>, <<"l4", FALSE, "temporal_splits">> }

Calls ==
    { [ steps_none |-> FALSE, steps |-> sl, preset |-> o[3],
        template_metric |-> o[1], extra_outputs |-> o[2],
        num_channels |-> 5, num_shift |-> MaxShift ] :
        sl \in SeqsUpTo(RecognizedSteps \cup { "not_a_step" }, MaxSteps),
        o \in Options }
    \cup
    { [ steps_none |-> TRUE, steps |-> << >>, preset |-> p,
        template_metric |-> o[1], extra_outputs |-> o[2],
        num_channels |-> 5, num_shift |-> MaxShift ] :
        p \in KnownPresets \cup { "other" }, o \in Options }

(***************************************************************************)
(* get_potential_auto_merge as a state machine                             *)
(***************************************************************************)
NoOuts == << >>
Unbound == [bound |-> FALSE, value |-> [u \in Units |-> NaN]]
NoResult == [potential_merges |-> << >>, with_outs |-> FALSE, outs |-> NoOuts]
NoOutcome == [status |-> "", error |-> "", result |-> NoResult, outs |-> NoOuts]
NoCall == [pc |-> "none"]

Init ==
    /\ analyzer \in Analyzers
    /\ args \in Calls
    /\ pc = "idle"
    /\ steps = << >>
    /\ step_i = 0
    /\ pair_mask = [i \in Units |-> [j \in Units |-> FALSE]]
    /\ outs = NoOuts
    /\ contaminations = Unbound
    /\ executed = << >>
    /\ error = ""
    /\ result = NoResult
    /\ call_no = 1
    /\ first_result = NoOutcome
    /\ first_args = NoCall
    /\ aw = NoCall
    /\ td = NoCall
    /\ cs = NoCall
    /\ nz = NoCall
    /\ th = NoCall
    /\ cm = NoCall

\* lines 134-197: the stage list is resolved, the matrix and outs are created
Enter ==
    /\ pc = "idle"
    /\ pair_mask' = InitialPairMask
    /\ outs' = NoOuts
    /\ contaminations' = Unbound
    /\ executed' = << >>
    /\ result' = NoResult
    /\ IF args.steps_none /\ args.preset \notin KnownPresets
       THEN \* steps stays None: "for step in steps" raises
            /\ pc' = "error" /\ error' = "TypeError"
            /\ steps' = << >> /\ step_i' = 0
       ELSE /\ pc' = "loop" /\ error' = ""
            /\ steps' = IF args.steps_none THEN PresetSteps(args.preset)
                        ELSE args.steps
            /\ step_i' = 1
    /\ UNCHANGED << analyzer, args, call_no, first_result, first_args,
                    aw, td, cs, nz, th, cm >>

AtStep(name) == pc = "loop" /\ step_i <= Len(steps) /\ steps[step_i] = name

\* the stage completed: the loop moves on
Completed(name) ==
    /\ executed' = Append(executed, name)
    /\ step_i' = step_i + 1
    /\ pc' = "loop"
    /\ error' = ""

\* the stage raised: the call ends
Raised(exc) ==
    /\ pc' = "error"
    /\ error' = exc
    /\ UNCHANGED << step_i, executed >>

\* assert step in all_steps
InvalidStep ==
    /\ pc = "loop" /\ step_i <= Len(steps)
    /\ steps[step_i] \notin RecognizedSteps
    /\ Raised("AssertionError")
    /\ UNCHANGED << analyzer, args, steps, pair_mask, outs, contaminations,
                    result, call_no, first_result, first_args,
                    aw, td, cs, nz, th, cm >>

MinSpikes ==
    /\ AtStep("min_spikes")
    /\ pair_mask' = min_spikes_stage(pair_mask, analyzer.num_spikes)
    /\ Completed("min_spikes")
    /\ UNCHANGED << analyzer, args, steps, outs, contaminations, result,
                    call_no, first_result, first_args,
                    aw, td, cs, nz, th, cm >>

RemoveContaminated ==
    /\ AtStep("remove_contaminated")
    /\ contaminations' = [bound |-> TRUE, value |-> analyzer.contaminations]
    /\ pair_mask' = remove_contaminated_stage(pair_mask, analyzer.contaminations)
    /\ Completed("remove_contaminated")
    /\ UNCHANGED << analyzer, args, steps, outs, result, call_no, first_result, first_args,
                    aw, td, cs, nz, th, cm >>

UnitPositions ==
    /\ AtStep("unit_positions")
    /\ LET unit_distances == cdist(UnitLocations(analyzer)) IN
        /\ pair_mask' = unit_positions_stage(pair_mask, unit_distances)
        /\ outs' = ("unit_distances" :> unit_distances) @@ outs
    /\ Completed("unit_positions")
    /\ UNCHANGED << analyzer, args, steps, contaminations, result, call_no,
                    first_result, first_args,
                    aw, td, cs, nz, th, cm >>

\* as ExtensionAfterCensoring, with every bin of the extension's array zeroed
ExtensionZeroed(a, correlograms) ==
    IF a.has_correlograms
    THEN [a EXCEPT !.correlograms =
            [i \in Units |-> [j \in Units |-> [b \in DOMAIN correlograms[i][j] |-> 0]]]]
    ELSE a

\* the extension's get_data() hands out the cached array itself, so the
\* censoring of line 246 is written into the extension's data
ExtensionAfterCensoring(a, correlograms) ==
    IF a.has_correlograms
    THEN [a EXCEPT !.correlograms = correlograms]
    ELSE a

Correlogram ==
    /\ AtStep("correlogram")
    /\ LET correlograms == Censor(IF analyzer.has_correlograms
                                  THEN analyzer.correlograms
                                  ELSE analyzer.sorting_ccgs)
           smoothed == smooth_correlogram(correlograms)
           exc == CorrelogramError(smoothed, analyzer.num_spikes, pair_mask)
           win_sizes == WinSizes(smoothed)
           correlogram_diff ==
               compute_correlogram_diff(smoothed, win_sizes,
                                        analyzer.num_spikes, pair_mask)
       IN
        /\ analyzer' = ExtensionAfterCensoring(analyzer, correlograms)
        /\ IF exc # ""
           THEN /\ Raised(exc)
                /\ UNCHANGED << pair_mask, outs >>
           ELSE /\ pair_mask' = correlogram_stage(pair_mask, correlogram_diff)
                /\ outs' = ("correlograms" :> correlograms)
                           @@ ("bins" :> bins)
                           @@ ("correlograms_smoothed" :> smoothed)
                           @@ ("correlogram_diff" :> correlogram_diff)
                           @@ ("win_sizes" :> win_sizes)
                           @@ outs
                /\ Completed("correlogram")
    /\ UNCHANGED << args, steps, contaminations, result, call_no, first_result, first_args,
                    aw, td, cs, nz, th, cm >>

TemplateSimilarity ==
    /\ AtStep("template_similarity")
    /\ IF analyzer.has_template_similarity THEN
            LET templates_diff == SimilarityDiff(analyzer.templates_similarity) IN
            /\ pair_mask' = template_similarity_stage(pair_mask, templates_diff)
            /\ outs' = ("templates_diff" :> templates_diff) @@ outs
            /\ Completed("template_similarity")
       ELSE IF ~analyzer.has_templates
               \/ args.template_metric \notin TemplateMetrics THEN
            \* assert templates_ext is not None / assert template_metric in [...]
            /\ Raised("AssertionError")
            /\ UNCHANGED << pair_mask, outs >>
       ELSE
            LET templates_diff ==
                    compute_templates_diff(analyzer.templates, args.num_channels,
                                           args.num_shift, pair_mask,
                                           args.template_metric,
                                           analyzer.has_sparsity,
                                           analyzer.sparsity_mask)
            IN
            /\ pair_mask' = template_similarity_stage(pair_mask, templates_diff)
            /\ outs' = ("templates_diff" :> templates_diff) @@ outs
            /\ Completed("template_similarity")
    /\ UNCHANGED << analyzer, args, steps, contaminations, result, call_no,
                    first_result, first_args,
                    aw, td, cs, nz, th, cm >>

Knn ==
    /\ AtStep("knn")
    /\ IF ~analyzer.has_knn THEN
            \* get_extension("spike_locations") is None
            /\ Raised("AttributeError")
            /\ UNCHANGED pair_mask
       ELSE /\ pair_mask' = get_pairs_via_nntree(pair_mask, analyzer.knn_counts)
            /\ Completed("knn")
    /\ UNCHANGED << analyzer, args, steps, outs, contaminations, result,
                    call_no, first_result, first_args,
                    aw, td, cs, nz, th, cm >>

PresenceDistance ==
    /\ AtStep("presence_distance")
    /\ LET presence_distances ==
               compute_presence_distance(analyzer.presence, pair_mask) IN
        /\ pair_mask' = presence_distance_stage(pair_mask, presence_distances)
        /\ outs' = ("presence_distances" :> presence_distances) @@ outs
    /\ Completed("presence_distance")
    /\ UNCHANGED << analyzer, args, steps, contaminations, result, call_no,
                    first_result, first_args,
                    aw, td, cs, nz, th, cm >>

CrossContamination ==
    /\ AtStep("cross_contamination")
    /\ LET p_values ==
               compute_cross_contaminations(analyzer.cc_p_values, pair_mask) IN
        /\ pair_mask' = cross_contamination_stage(pair_mask, p_values)
        /\ outs' = ("cross_contaminations" :> p_values) @@ outs
    /\ Completed("cross_contamination")
    /\ UNCHANGED << analyzer, args, steps, contaminations, result, call_no,
                    first_result, first_args,
                    aw, td, cs, nz, th, cm >>

CheckIncreaseScore ==
    /\ AtStep("check_increase_score")
    /\ IF ~contaminations.bound THEN
            \* the local variable contaminations was never assigned
            /\ Raised("NameError")
            /\ UNCHANGED << pair_mask, outs >>
       ELSE LET r == check_improve_contaminations_score(
                        analyzer, pair_mask, contaminations.value,
                        firing_contamination_balance) IN
            /\ pair_mask' = r.pair_mask
            /\ outs' = ("pairs_decreased_score" :> r.pairs_removed) @@ outs
            /\ Completed("check_increase_score")
    /\ UNCHANGED << analyzer, args, steps, contaminations, result, call_no,
                    first_result, first_args,
                    aw, td, cs, nz, th, cm >>

\* FINAL STEP
Finalize ==
    /\ pc = "loop" /\ step_i > Len(steps)
    /\ result' = [ potential_merges |-> potential_merges(analyzer, pair_mask),
                   with_outs |-> args.extra_outputs,
                   outs |-> IF args.extra_outputs THEN outs ELSE NoOuts ]
    /\ pc' = "done"
    /\ UNCHANGED << analyzer, args, steps, step_i, pair_mask, outs,
                    contaminations, executed, error, call_no, first_result, first_args,
                    aw, td, cs, nz, th, cm >>

Outcome == [status |-> pc, error |-> error, result |-> result, outs |-> outs]

\* the caller invokes the function again on the same analyzer
CallAgain ==
    /\ pc \in { "done", "error" }
    /\ call_no = 1
    /\ first_result' = Outcome
    /\ first_args' = args
    /\ call_no' = 2
    /\ pc' = "idle"
    /\ steps' = << >>
    /\ step_i' = 0
    /\ error' = ""
    /\ UNCHANGED << analyzer, args, pair_mask, outs, contaminations, executed,
                    result, aw, td, cs, nz, th, cm >>

\* the stages that only filter the candidate matrix by a per-pair verdict
FilterSteps ==
    { "min_spikes", "remove_contaminated", "unit_positions", "correlogram",
      "template_similarity" }

\* the stage lists that hold the same stages as sl in another order
Reorderings(sl) ==
    { [k \in 1 .. Len(sl) |-> sl[p[k]]] :
        p \in { q \in [1 .. Len(sl) -> 1 .. Len(sl)] :
                  \A a, b \in 1 .. Len(sl) : a # b => q[a] # q[b] } }
    \ { sl }

\* the caller invokes the function again on the same analyzer with the
\* filter stages of the first call given in another order
CallPermuted ==
    /\ pc \in { "done", "error" }
    /\ call_no = 1
    /\ ~args.steps_none
    /\ \A k \in 1 .. Len(args.steps) : args.steps[k] \in FilterSteps
    /\ \E sl \in Reorderings(args.steps) : args' = [args EXCEPT !.steps = sl]
    /\ first_result' = Outcome
    /\ first_args' = args
    /\ call_no' = 2
    /\ pc' = "idle"
    /\ steps' = << >>
    /\ step_i' = 0
    /\ error' = ""
    /\ UNCHANGED << analyzer, pair_mask, outs, contaminations, executed,
                    result, aw, td, cs, nz, th, cm >>

Next ==
    \/ Enter
    \/ InvalidStep
    \/ MinSpikes
    \/ RemoveContaminated
    \/ UnitPositions
    \/ Correlogram
    \/ TemplateSimilarity
    \/ Knn
    \/ PresenceDistance
    \/ CrossContamination
    \/ CheckIncreaseScore
    \/ Finalize
    \/ CallAgain
    \/ CallPermuted

Spec == Init /\ [][Next]_vars

(***************************************************************************)
(* get_unit_adaptive_window on its own: one call per behaviour, one step   *)
(* per activation of the function                                          *)
(***************************************************************************)
MaxCount == 2

pipeline ==
    << analyzer, args, pc, steps, step_i, pair_mask, outs, contaminations,
       executed, error, result, call_no, first_result, first_args >>

NoPipeline ==
    /\ analyzer = NoCall
    /\ args = NoCall
    /\ pc = "none"
    /\ steps = << >>
    /\ step_i = 0
    /\ pair_mask = [i \in Units |-> [j \in Units |-> FALSE]]
    /\ outs = NoOuts
    /\ contaminations = Unbound
    /\ executed = << >>
    /\ error = ""
    /\ result = NoResult
    /\ call_no = 1
    /\ first_result = NoOutcome
    /\ first_args = NoCall

\* a caller enters get_unit_adaptive_window(auto_corr, threshold)
InitWindow ==
    /\ NoPipeline
    /\ nz = NoCall
    /\ th = NoCall
    /\ cm = NoCall
    /\ \E ac \in [Bins -> 0 .. MaxCount], t \in { adaptative_window_threshold, RInt(1) } :
          aw = [pc |-> "call", auto_corr |-> ac, threshold |-> t,
                depth |-> 0, window |-> 0]
    /\ td = NoCall
    /\ cs = NoCall

\* lines 512-513
WindowZero ==
    /\ aw.pc = "call"
    /\ AllZero(aw.auto_corr, NumBins)
    /\ aw' = [aw EXCEPT !.pc = "returned", !.window = FallbackWindow]
    /\ UNCHANGED << pipeline, td, cs, nz, th, cm >>

\* lines 515-523, 527-530: a kept peak exists
WindowReturn ==
    /\ aw.pc = "call"
    /\ ~AllZero(aw.auto_corr, NumBins)
    /\ KeptPeaks(aw.auto_corr, NumBins, aw.threshold) # {}
    /\ aw' = [aw EXCEPT !.pc = "returned",
                        !.window = NumBins \div 2
                            - SetMax(KeptPeaks(aw.auto_corr, NumBins, aw.threshold))]
    /\ UNCHANGED << pipeline, td, cs, nz, th, cm >>

\* lines 523-525: no kept peak, the function calls itself with threshold / 2
WindowRecurse ==
    /\ aw.pc = "call"
    /\ ~AllZero(aw.auto_corr, NumBins)
    /\ KeptPeaks(aw.auto_corr, NumBins, aw.threshold) = {}
    /\ aw.depth < RecursionLimit
    /\ aw' = [aw EXCEPT !.threshold = RDiv(aw.threshold, RInt(2)),
                        !.depth = aw.depth + 1]
    /\ UNCHANGED << pipeline, td, cs, nz, th, cm >>

\* line 525 at the interpreter's recursion limit: RecursionError
WindowOverflow ==
    /\ aw.pc = "call"
    /\ ~AllZero(aw.auto_corr, NumBins)
    /\ KeptPeaks(aw.auto_corr, NumBins, aw.threshold) = {}
    /\ aw.depth >= RecursionLimit
    /\ aw' = [aw EXCEPT !.pc = "raised"]
    /\ UNCHANGED << pipeline, td, cs, nz, th, cm >>

NextWindow ==
    \/ WindowZero
    \/ WindowReturn
    \/ WindowRecurse
    \/ WindowOverflow

SpecWindow == InitWindow /\ [][NextWindow]_vars

\* C7: every call of get_unit_adaptive_window ends by returning: 20 for an
\* identically-zero auto-correlogram, else the window of the last kept peak
\* below the centre; no call is still halving its threshold when the
\* interpreter's recursion limit is reached.
C7_WindowTerminates ==
    /\ aw.pc # "raised"
    /\ (aw.pc = "returned" /\ AllZero(aw.auto_corr, NumBins))
          => aw.window = FallbackWindow
    /\ (aw.pc = "returned" /\ ~AllZero(aw.auto_corr, NumBins))
          => aw.window \in 1 .. (NumBins \div 2)

(***************************************************************************)
(* compute_templates_diff on its own: one call per behaviour               *)
(***************************************************************************)
\* one channel of a template: silent, a spike inside the central samples,
\* or a deflection that lasts over the whole snippet
Waves ==
    { [k \in Samples |-> 0],
      [k \in Samples |->
          IF k \in MaxShift .. (NumSamples - MaxShift - 1) THEN 1 ELSE 0],
      [k \in Samples |-> 1] }

\* templates (num_samples, num_channels) built channel by channel
Templates ==
    { [k \in Samples |-> [c \in Chans |-> w[c][k]]] : w \in [Chans -> Waves] }

AllChannels == [c \in Chans |-> TRUE]
UnitMasks == { AllChannels } \cup { [c \in Chans |-> c = d] : d \in Chans }

\* a caller enters compute_templates_diff; the last unit carries the template
\* of the first one, the pair mask is the initial candidate matrix
InitTemplates ==
    /\ NoPipeline
    /\ nz = NoCall
    /\ th = NoCall
    /\ cm = NoCall
    /\ aw = NoCall
    /\ cs = NoCall
    /\ \E t0, t1 \in Templates, m0, m1 \in UnitMasks, sp \in BOOLEAN,
          nc \in { NoChannelCount, 1, 5 }, ns \in 0 .. MaxShift,
          tm \in TemplateMetrics \cup { "l4" } :
          /\ sp \/ (m0 = AllChannels /\ m1 = AllChannels)
          /\ td = [pc |-> "call",
                   templates_array |->
                       [u \in Units |-> IF u = 1 THEN t1 ELSE t0],
                   has_sparsity |-> sp,
                   sparsity_mask |->
                       [u \in Units |-> IF u = 0 THEN m0
                                        ELSE IF u = 1 THEN m1 ELSE AllChannels],
                   num_channels |-> nc,
                   num_shift |-> ns,
                   template_metric |-> tm,
                   pair_mask |-> InitialPairMask,
                   chan_inds |-> [i \in Units |-> [j \in Units |-> {}]],
                   templates_diff |->
                       [i \in Units |-> [j \in Units |-> SurdNaN]]]

\* line 612: assert template_metric in ["l1", "l2", "cosine"]
TemplatesAssert ==
    /\ td.pc = "call"
    /\ td.template_metric \notin TemplateMetrics
    /\ td' = [td EXCEPT !.pc = "raised"]
    /\ UNCHANGED << pipeline, aw, cs, nz, th, cm >>

\* lines 614-666; chan_inds keeps the channels each computed pair was compared on
TemplatesDiff ==
    /\ td.pc = "call"
    /\ td.template_metric \in TemplateMetrics
    /\ td' = [td EXCEPT
            !.pc = "returned",
            !.chan_inds = [i \in Units |-> [j \in Units |->
                IF i < j /\ td.pair_mask[i][j]
                THEN chan_inds(td.templates_array[i], td.templates_array[j],
                               td.sparsity_mask[i], td.sparsity_mask[j],
                               td.num_channels, td.has_sparsity)
                ELSE {}]],
            !.templates_diff = compute_templates_diff(
                td.templates_array, td.num_channels, td.num_shift, td.pair_mask,
                td.template_metric, td.has_sparsity, td.sparsity_mask)]
    /\ UNCHANGED << pipeline, aw, cs, nz, th, cm >>

NextTemplates ==
    \/ TemplatesAssert
    \/ TemplatesDiff

SpecTemplates == InitTemplates /\ [][NextTemplates]_vars

Computed(i, j) == i < j /\ td.pair_mask[i][j]

Silent(t) == \A k \in Samples, c \in Chans : t[k][c] = 0

\* C8: a computed pair whose two templates are identical (and not silent) has
\* distance 0, whatever the metric, the content and num_shift.
C8_IdenticalTemplatesZero ==
    (td.pc = "returned" /\ ~td.has_sparsity)
        => \A i, j \in Units :
              (/\ Computed(i, j)
               /\ td.templates_array[i] = td.templates_array[j]
               /\ ~Silent(td.templates_array[i]))
                 => SurdEqInt(td.templates_diff[i][j], 0)

SharedChannels(i, j) ==
    { c \in Chans : td.sparsity_mask[i][c] /\ td.sparsity_mask[j][c] }

ComparedOnIntersection ==
    \A i, j \in Units :
        Computed(i, j)
            => /\ td.chan_inds[i][j] = SharedChannels(i, j)
               /\ SharedChannels(i, j) = {}
                     => SurdEqInt(td.templates_diff[i][j], 1)

\* C9 as stated: whenever a sparsity mask is supplied, whatever num_channels,
\* a computed pair is compared on the channels common to the two masks, and
\* gets distance 1 when there is none.
C9_SparsityAlwaysUsed ==
    (td.pc = "returned" /\ td.has_sparsity) => ComparedOnIntersection

Amplitude(i, j, c) ==
    LET t1 == td.templates_array[i]
        t2 == td.templates_array[j]
    IN  SetMax({ Abs(t1[k][c] + t2[k][c]) : k \in Samples })

ComparedOnLargest ==
    \A i, j \in Units :
        Computed(i, j)
            => /\ Cardinality(td.chan_inds[i][j])
                    = (IF td.num_channels < NumChans THEN td.num_channels ELSE NumChans)
               /\ \A c \in td.chan_inds[i][j], d \in Chans \ td.chan_inds[i][j] :
                     Amplitude(i, j, c) >= Amplitude(i, j, d)

\* C9 amended: with a sparsity mask and num_channels=None a computed pair is
\* compared on the channels common to the two masks and gets distance 1 when
\* there is none; with a sparsity mask and an integer num_channels the mask is
\* not used: the pair is compared on the num_channels channels of largest
\* max |template1 + template2|.
C9_SparsityUsedWhenNoChannelCount ==
    (td.pc = "returned" /\ td.has_sparsity)
        => IF td.num_channels = NoChannelCount
           THEN ComparedOnIntersection
           ELSE ComparedOnLargest

\* C9 witness: num_channels=None, two units with disjoint masks, distance 1
C9_Witness ==
    /\ td.pc = "returned" /\ td.has_sparsity
    /\ td.num_channels = NoChannelCount
    /\ \E i, j \in Units :
          /\ Computed(i, j)
          /\ SharedChannels(i, j) = {}
          /\ ~Silent(td.templates_array[i]) /\ ~Silent(td.templates_array[j])
          /\ SurdEqInt(td.templates_diff[i][j], 1)

(***************************************************************************)
(* check_improve_contaminations_score on its own: one call per behaviour   *)
(***************************************************************************)
MaxRate == 2

Larger(x, y) == IF RLt(x, y) THEN y ELSE x

\* the sorting seen by the score stage: firing rates of the units, and the
\* firing rate and contamination recomputed for each merged pair; the merge
\* of units 0 and 1 is free, the other ones add the rates and keep the larger
\* contamination
ScoredSorting(f, mf, mc, contam) ==
    [ unit_ids |-> [u \in Units |-> 10 + u],
      firing_rates |-> f,
      merged_firing_rates |->
          [i \in Units |-> [j \in Units |->
              IF i = 0 /\ j = 1 THEN mf ELSE f[i] + f[j]]],
      merged_contaminations |->
          [i \in Units |-> [j \in Units |->
              IF i = 0 /\ j = 1 THEN mc ELSE Larger(contam[i], contam[j])]] ]

InitScore ==
    /\ NoPipeline
    /\ nz = NoCall
    /\ th = NoCall
    /\ cm = NoCall
    /\ aw = NoCall
    /\ td = NoCall
    /\ \E f \in [Units -> 1 .. MaxRate],
          contam \in [Units -> { RInt(0), Rat(1, 7) }],
          mf \in 1 .. (MaxRate + 1),
          mc \in { RInt(0), Rat(1, 7), Rat(2, 7) },
          mask \in { InitialPairMask,
                     [i \in Units |-> [j \in Units |-> i = 0 /\ j = 1]] },
          k \in { firing_contamination_balance, RInt(1) } :
          cs = [pc |-> "call",
                sorting_analyzer |-> ScoredSorting(f, mf, mc, contam),
                pair_mask |-> mask,
                contaminations |-> contam,
                firing_contamination_balance |-> k,
                returned |-> [pair_mask |-> mask, pairs_removed |-> << >>]]

\* lines 669-724
ScoreStage ==
    /\ cs.pc = "call"
    /\ cs' = [cs EXCEPT
            !.pc = "returned",
            !.returned = check_improve_contaminations_score(
                cs.sorting_analyzer, cs.pair_mask, cs.contaminations,
                cs.firing_contamination_balance)]
    /\ UNCHANGED << pipeline, aw, td, nz, th, cm >>

SpecScore == InitScore /\ [][ScoreStage]_vars

\* firing_rate * (1 - (k + 1) * contamination)
QualityScore(f, c) ==
    RMul(RInt(f),
         RSub(RInt(1), RMul(RAdd(cs.firing_contamination_balance, RInt(1)), c)))

score_1(i) == QualityScore(cs.sorting_analyzer.firing_rates[i], cs.contaminations[i])
score_new(i, j) ==
    QualityScore(cs.sorting_analyzer.merged_firing_rates[i][j],
                 cs.sorting_analyzer.merged_contaminations[i][j])

\* C10: the score stage clears an entry that is True on entry if and only if
\* score_new < score_1 or score_new < score_2; an entry that is False on
\* entry stays False; in particular a merged score equal to the larger of the
\* two original scores keeps the pair.
C10_ClearedIffScoreDecreases ==
    cs.pc = "returned"
        => \A i, j \in Units :
              IF cs.pair_mask[i][j]
              THEN ~cs.returned.pair_mask[i][j]
                      <=> (\/ RLt(score_new(i, j), score_1(i))
                           \/ RLt(score_new(i, j), score_1(j)))
              ELSE ~cs.returned.pair_mask[i][j]

\* C10 witness: the merged score of units 0 and 1 equals the larger of their
\* scores, which differ, and the pair is kept; another pair is cleared
C10_Witness ==
    /\ cs.pc = "returned"
    /\ cs.pair_mask[0][1]
    /\ score_1(0) # score_1(1)
    /\ score_new(0, 1) = Larger(score_1(0), score_1(1))
    /\ cs.returned.pair_mask[0][1]
    /\ \E i, j \in Units : cs.pair_mask[i][j] /\ ~cs.returned.pair_mask[i][j]

(***************************************************************************)
(* Properties of get_potential_auto_merge                                  *)
(***************************************************************************)
\* C1: monotone shrinkage.  While the stage loop of a call runs, no step turns
\* an entry of pair_mask that is False into True, and the number of True
\* entries does not increase.
C1_MonotoneShrinkage ==
    [][ (pc = "loop")
        => /\ \A i, j \in Units : pair_mask'[i][j] => pair_mask[i][j]
           /\ TrueCount(pair_mask') <= TrueCount(pair_mask) ]_vars

\* C1 witness: two stages have run and have cleared some, not all, entries
C1_Witness ==
    /\ pc = "loop" /\ Len(executed) = 2
    /\ TrueCount(pair_mask) < TrueCount(InitialPairMask)
    /\ TrueCount(pair_mask) > 0

IsPrefix(a, b) == Len(a) <= Len(b) /\ \A k \in 1 .. Len(a) : a[k] = b[k]

Pairs(sq) == { sq[k] : k \in 1 .. Len(sq) }

\* C2: at every point of a call no entry (i, j) with i > j is True, and the
\* returned list never holds both (a, b) and (b, a) for two units a # b.
C2_NoMirroredPair ==
    /\ pc \in { "loop", "done", "error" }
        => \A i, j \in Units : i > j => ~pair_mask[i][j]
    /\ pc = "done"
        => \A q \in Pairs(result.potential_merges) :
              q[1] # q[2] => <<q[2], q[1]>> \notin Pairs(result.potential_merges)

\* C2 witness: a call returned several pairs after a stage has run
C2_Witness ==
    /\ pc = "done" /\ Len(executed) >= 1
    /\ Len(result.potential_merges) >= 2

HasUnknownStep == \E k \in 1 .. Len(steps) : steps[k] \notin RecognizedSteps

\* C3: a stage list that holds an unrecognized name makes the call fail
\* before any stage of the list has been executed.
C3_UnknownStepFailsFirst ==
    (pc \in { "loop", "done", "error" } /\ HasUnknownStep)
        => (executed = << >> /\ pc # "done")

\* the analyzer holds every extension and every unit has a correlogram window
CompleteAnalyzer ==
    /\ analyzer.has_unit_locations /\ analyzer.has_correlograms
    /\ analyzer.has_template_similarity /\ analyzer.has_templates
    /\ analyzer.has_knn
    /\ \A u \in Units :
          WinSizes(smooth_correlogram(Censor(analyzer.correlograms)))[u]
              \in 1 .. HalfBins

\* C4: a call whose stage list holds recognized names only never raises (said
\* for analyzers that hold every extension, so that nothing is missing).
C4_RecognizedStepsNeverRaise ==
    (~args.steps_none /\ CompleteAnalyzer
        /\ \A k \in 1 .. Len(args.steps) : args.steps[k] \in RecognizedSteps)
        => pc # "error"

\* C5: the second call on the same analyzer with the same arguments ends as
\* the first one did: same exception or same returned value, same diagnostics.
C5_Deterministic ==
    (call_no = 2 /\ args = first_args /\ pc \in { "done", "error" })
        => Outcome = first_result

\* C5 witness: the second call returned after the correlogram stage ran on the
\* extension's correlograms, which the first call had censored in place
C5_Witness ==
    /\ call_no = 2 /\ args = first_args /\ pc = "done"
    /\ \E k \in 1 .. Len(executed) : executed[k] = "correlogram"
    /\ analyzer.has_correlograms
    /\ analyzer.correlograms # analyzer.sorting_ccgs
    /\ Len(result.potential_merges) > 0

DefaultSequence ==
    << "min_spikes", "remove_contaminated", "unit_positions",
       "template_similarity", "correlogram", "check_increase_score" >>
TemporalSplitsSequence ==
    << "min_spikes", "remove_contaminated", "unit_positions",
       "template_similarity", "correlogram", "presence_distance",
       "check_increase_score" >>
LussacSequence ==
    << "min_spikes", "remove_contaminated", "unit_positions",
       "template_similarity", "cross_contamination", "check_increase_score" >>

ExpectedSequence ==
    IF ~args.steps_none THEN args.steps
    ELSE IF args.preset = "None" THEN DefaultSequence
    ELSE IF args.preset = "temporal_splits" THEN TemporalSplitsSequence
    ELSE LussacSequence

C11_BadMetricFailsFirst ==
    (/\ pc \in { "loop", "done", "error" }
     /\ \E k \in 1 .. Len(steps) : steps[k] = "template_similarity"
     /\ args.template_metric \notin { "l1", "l2", "cosine" })
        => (executed = << >> /\ pc # "done")

(***************************************************************************)
(* normalize_correlogram in floating point: the values are binary floats   *)
(* with a mantissa of Precision bits (53 for float64), every operation is  *)
(* rounded to the nearest one, ties to even                                *)
(***************************************************************************)
Precision == 5

RECURSIVE Pow2(_)
Pow2(k) == IF k = 0 THEN 1 ELSE 2 * Pow2(k - 1)

\* the float nearest to (n / d) * 2^e, for n > 0 and d > 0: the mantissa is
\* brought into [2^(Precision-1), 2^Precision) and rounded
RECURSIVE RoundFloat(_, _, _)
RoundFloat(n, d, e) ==
    IF n < Pow2(Precision - 1) * d THEN RoundFloat(2 * n, d, e - 1)
    ELSE IF n >= Pow2(Precision) * d THEN RoundFloat(n, 2 * d, e + 1)
    ELSE IF e >= 0 THEN Rat(RoundHalfEven(n, d) * Pow2(e), 1)
    ELSE Rat(RoundHalfEven(n, d), Pow2(-e))

\* the float that stores the real number r
Float(r) ==
    IF IsNaN(r) THEN NaN
    ELSE IF r[1] = 0 THEN RInt(0)
    ELSE LET v == RoundFloat(Abs(r[1]), r[2], 0)
         IN  IF r[1] < 0 THEN <<-v[1], v[2]>> ELSE v

\* np.mean(correlogram): the entries are added one after the other, the sum
\* is divided by their number
RECURSIVE FloatSum(_, _)
FloatSum(c, k) ==
    IF k = 0 THEN RInt(0) ELSE Float(RAdd(FloatSum(c, k - 1), c[k - 1]))

FloatMean(c) == Float(RDiv(FloatSum(c, NumBins), RInt(NumBins)))

\* as normalize_correlogram_float, without the test mean == 0
NormalizeAlwaysDivides(c) ==
    [k \in Bins |-> Float(RDiv(c[k], FloatMean(c)))]

\* return correlogram if mean == 0 else correlogram / mean
normalize_correlogram_float(c) ==
    IF FloatMean(c)[1] = 0 THEN c
    ELSE [k \in Bins |-> Float(RDiv(c[k], FloatMean(c)))]

\* a caller normalizes a correlogram of counts, then the result again
InitNormalize ==
    /\ NoPipeline
    /\ aw = NoCall
    /\ td = NoCall
    /\ cs = NoCall
    /\ th = NoCall
    /\ cm = NoCall
    /\ \E c \in [Bins -> { RInt(v) : v \in 0 .. MaxCount }] :
          nz = [pc |-> "call", correlogram |-> c, once |-> c, twice |-> c]

NormalizeOnce ==
    /\ nz.pc = "call"
    /\ nz' = [nz EXCEPT !.pc = "once",
                        !.once = normalize_correlogram_float(nz.correlogram)]
    /\ UNCHANGED << pipeline, aw, td, cs, th, cm >>

NormalizeTwice ==
    /\ nz.pc = "once"
    /\ nz' = [nz EXCEPT !.pc = "twice",
                        !.twice = normalize_correlogram_float(nz.once)]
    /\ UNCHANGED << pipeline, aw, td, cs, th, cm >>

NextNormalize ==
    \/ NormalizeOnce
    \/ NormalizeTwice

SpecNormalize == InitNormalize /\ [][NextNormalize]_vars

\* C12 as stated: normalize(normalize(c)) = normalize(c) for every c.
C12_Idempotent ==
    nz.pc = "twice" => nz.twice = nz.once

\* |x - y| <= |y| * 2^(2 - Precision)
WithinRounding(x, y) ==
    LET diff == RSub(x, y) IN
    RLe(RMul(<<Abs(diff[1]), diff[2]>>, RInt(Pow2(Precision - 2))),
        <<Abs(y[1]), y[2]>>)

\* C12 amended: a correlogram whose computed mean is 0 (so an all-zero one)
\* or exactly 1 is returned unchanged; normalize(normalize(c)) equals
\* normalize(c) when the computed mean of normalize(c) is exactly 1 or 0, and
\* otherwise agrees with it entry by entry up to the rounding of the
\* floating-point operations (relative difference at most 2^(2 - Precision)).
C12_IdempotentUpToRounding ==
    /\ (nz.pc # "call" /\ FloatMean(nz.correlogram) \in { RInt(0), RInt(1) })
          => nz.once = nz.correlogram
    /\ (nz.pc = "twice" /\ FloatMean(nz.once) \in { RInt(0), RInt(1) })
          => nz.twice = nz.once
    /\ nz.pc = "twice"
          => \A k \in Bins : WithinRounding(nz.twice[k], nz.once[k])

\* C12 witness: the mean of the normalized correlogram is not exactly 1 and
\* the second normalization changes it
C12_Witness ==
    /\ nz.pc = "twice"
    /\ FloatMean(nz.once) # RInt(1)
    /\ nz.twice # nz.once

\* C13: the min_spikes stage leaves entry (i, j) True if and only if it was
\* True before and units i and j both have at least minimum_spikes spikes.
C13_MinSpikesExact ==
    [][ AtStep("min_spikes")
        => \A i, j \in Units :
              pair_mask'[i][j]
                 <=> (/\ pair_mask[i][j]
                      /\ analyzer.num_spikes[i] >= minimum_spikes
                      /\ analyzer.num_spikes[j] >= minimum_spikes) ]_vars

\* C13 witness: min_spikes ran first; unit 1 has too few spikes and its column
\* entry (0, 1) was cleared, while (0, 2) is still True
C13_Witness ==
    /\ pc = "loop" /\ executed = << "min_spikes" >>
    /\ analyzer.num_spikes[1] < minimum_spikes
    /\ ~pair_mask[0][1]
    /\ pair_mask[0][2]

\* index of a unit id in unit_ids
UnitIndex(id) == CHOOSE u \in Units : analyzer.unit_ids[u] = id

RowMajor(q) == UnitIndex(q[1]) * NumUnits + UnitIndex(q[2])

\* C14: the returned list holds exactly one pair (unit_ids[i], unit_ids[j])
\* for each True entry (i, j) of the final matrix, in row-major order; it is
\* returned alone when extra_outputs is False, with the diagnostics otherwise.
C14_ListIsFinalMatrix ==
    pc = "done"
        => LET merges == result.potential_merges IN
           /\ Len(merges) = TrueCount(pair_mask)
           /\ \A k \in 1 .. Len(merges) :
                 /\ \E i, j \in Units :
                       /\ pair_mask[i][j]
                       /\ merges[k] = <<analyzer.unit_ids[i], analyzer.unit_ids[j]>>
                 /\ \A l \in 1 .. Len(merges) :
                       k < l => RowMajor(merges[k]) < RowMajor(merges[l])
           /\ result.with_outs = args.extra_outputs
           /\ result.outs = (IF args.extra_outputs THEN outs ELSE << >>)

\* C14 witness: a call with extra_outputs=True returned two pairs or more and
\* diagnostics
C14_Witness ==
    /\ pc = "done"
    /\ args.extra_outputs
    /\ Len(result.potential_merges) >= 2
    /\ result.outs # << >>

\* C15: every pairwise score matrix kept as a diagnostic (correlogram
\* difference, template difference, cross-contamination p-value) holds NaN at
\* every entry its stage did not compute; the diagonal entries and the
\* entries with i > j are never computed.
C15_UncomputedIsNaN ==
    \A i, j \in Units :
        i >= j
            => /\ "correlogram_diff" \in DOMAIN outs
                    => IsNaN(outs["correlogram_diff"][i][j])
               /\ "templates_diff" \in DOMAIN outs
                    => SurdIsNaN(outs["templates_diff"][i][j])
               /\ "cross_contaminations" \in DOMAIN outs
                    => IsNaN(outs["cross_contaminations"][i][j])

(***************************************************************************)
(* The threshold comparison of the presence_distance and of the            *)
(* correlogram stage on their own: one comparison per behaviour            *)
(***************************************************************************)
\* score matrices as the stage receives them: a number or NaN at each pair
\* i < j, NaN elsewhere; the numbers lie at the threshold and on either side
ScoreMatrices(around) ==
    { [i \in Units |-> [j \in Units |-> IF i < j THEN v[<<i, j>>] ELSE NaN]] :
        v \in [{ q \in Units \X Units : q[1] < q[2] } -> around \cup { NaN }] }

InitThreshold ==
    /\ NoPipeline
    /\ aw = NoCall
    /\ td = NoCall
    /\ cs = NoCall
    /\ nz = NoCall
    /\ cm = NoCall
    /\ \E mask \in { InitialPairMask,
                     [i \in Units |-> [j \in Units |-> i = 0 /\ j = 1]] } :
          \/ \E scores \in ScoreMatrices({ RInt(presence_distance_thresh - 1),
                                           RInt(presence_distance_thresh),
                                           RInt(presence_distance_thresh + 1) }) :
                th = [pc |-> "call", stage |-> "presence_distance",
                      pair_mask |-> mask, scores |-> scores, returned |-> mask]
          \/ \E scores \in ScoreMatrices({ RSub(corr_diff_thresh, Rat(1, 25)),
                                           corr_diff_thresh,
                                           RAdd(corr_diff_thresh, Rat(1, 25)) }) :
                th = [pc |-> "call", stage |-> "correlogram",
                      pair_mask |-> mask, scores |-> scores, returned |-> mask]

\* line 302
PresenceCompare ==
    /\ th.pc = "call" /\ th.stage = "presence_distance"
    /\ th' = [th EXCEPT !.pc = "returned",
                        !.returned = presence_distance_stage(th.pair_mask, th.scores)]
    /\ UNCHANGED << pipeline, aw, td, cs, nz, cm >>

\* line 262
CorrelogramCompare ==
    /\ th.pc = "call" /\ th.stage = "correlogram"
    /\ th' = [th EXCEPT !.pc = "returned",
                        !.returned = correlogram_stage(th.pair_mask, th.scores)]
    /\ UNCHANGED << pipeline, aw, td, cs, nz, cm >>

NextThreshold ==
    \/ PresenceCompare
    \/ CorrelogramCompare

SpecThreshold == InitThreshold /\ [][NextThreshold]_vars

Compared(stage) == th.pc = "returned" /\ th.stage = stage

\* the score is a number below (above) num / den
ScoreBelow(x, num, den) == x[2] # 0 /\ x[1] * den < num * x[2]
ScoreAbove(x, num, den) == x[2] # 0 /\ x[1] * den > num * x[2]

\* C16 as stated: the presence_distance stage clears a candidate pair (i < j)
\* if and only if its distance is below presence_distance_thresh; a distance
\* equal to the threshold keeps the pair.
C16_ClearedIffBelow ==
    Compared("presence_distance")
        => \A i, j \in Units :
              (i < j /\ th.pair_mask[i][j] /\ ~IsNaN(th.scores[i][j]))
                 => (~th.returned[i][j] <=> ScoreBelow(th.scores[i][j], 100, 1))

\* C16 amended: the presence_distance stage keeps an entry that is True on
\* entry if and only if its presence distance is strictly above
\* presence_distance_thresh; a distance equal to the threshold, below it, or
\* NaN clears the entry; an entry that is False on entry stays False.
C16_KeptIffAbove ==
    Compared("presence_distance")
        => \A i, j \in Units :
              th.returned[i][j]
                 <=> (th.pair_mask[i][j] /\ ScoreAbove(th.scores[i][j], 100, 1))

\* C16 witness: a candidate pair at the threshold is cleared, one above stays
C16_Witness ==
    /\ Compared("presence_distance")
    /\ \E i, j \in Units :
          /\ i < j /\ th.pair_mask[i][j]
          /\ th.scores[i][j] = RInt(100)
          /\ ~th.returned[i][j]
    /\ \E i, j \in Units : th.returned[i][j]

\* C17 as stated: the correlogram stage clears a candidate pair (i < j) if and
\* only if its correlogram difference exceeds corr_diff_thresh; a difference
\* equal to the threshold keeps the pair.
C17_ClearedIffAbove ==
    Compared("correlogram")
        => \A i, j \in Units :
              (i < j /\ th.pair_mask[i][j] /\ ~IsNaN(th.scores[i][j]))
                 => (~th.returned[i][j] <=> ScoreAbove(th.scores[i][j], 4, 25))

\* C17 amended: the correlogram stage keeps an entry that is True on entry if
\* and only if its correlogram difference is strictly below corr_diff_thresh;
\* a difference equal to the threshold, above it, or NaN (an entry that was
\* not computed, as the diagonal ones) clears the entry; an entry that is
\* False on entry stays False.
C17_KeptIffBelow ==
    Compared("correlogram")
        => \A i, j \in Units :
              th.returned[i][j]
                 <=> (th.pair_mask[i][j] /\ ScoreBelow(th.scores[i][j], 4, 25))

\* C17 witness: a candidate pair at the threshold is cleared, one below stays
C17_Witness ==
    /\ Compared("correlogram")
    /\ \E i, j \in Units :
          /\ i < j /\ th.pair_mask[i][j]
          /\ th.scores[i][j] = <<4, 25>>
          /\ ~th.returned[i][j]
    /\ \E i, j \in Units : th.returned[i][j]

\* number of times the pair of units (i, j) is listed in pairs_removed
TimesRemoved(removed, i, j) ==
    Cardinality({ k \in 1 .. Len(removed) :
                    removed[k] = << cs.sorting_analyzer.unit_ids[i],
                                    cs.sorting_analyzer.unit_ids[j] >> })

\* C18: check_improve_contaminations_score leaves the mask it was given as
\* it is, and the returned mask and pairs_removed partition its True entries:
\* an entry True on input is either True in the returned mask or listed once,
\* never both; an entry False on input is False in the returned mask and is
\* not listed; nothing else is listed.
C18_RemovedPartition ==
    [][ (cs.pc = "call" /\ cs'.pc = "returned")
        => LET removed == cs'.returned.pairs_removed
               kept == cs'.returned.pair_mask
           IN  /\ cs'.pair_mask = cs.pair_mask
               /\ \A i, j \in Units :
                     IF cs.pair_mask[i][j]
                     THEN \/ kept[i][j] /\ TimesRemoved(removed, i, j) = 0
                          \/ ~kept[i][j] /\ TimesRemoved(removed, i, j) = 1
                     ELSE ~kept[i][j] /\ TimesRemoved(removed, i, j) = 0
               /\ \A k \in 1 .. Len(removed) :
                     \E i, j \in Units : TimesRemoved(<< removed[k] >>, i, j) = 1
      ]_vars

\* C18 witness: of several True entries some are kept and some are listed
C18_Witness ==
    /\ cs.pc = "returned"
    /\ Len(cs.returned.pairs_removed) >= 2
    /\ \E i, j \in Units : i < j /\ cs.returned.pair_mask[i][j]


\* C19: at every point of a call no diagonal entry (i, i) of the candidate
\* matrix is True, and no returned pair names the same unit twice.
C19_NoSelfPair ==
    /\ pc \in { "loop", "done", "error" }
        => \A i \in Units : ~pair_mask[i][i]
    /\ pc = "done"
        => \A q \in Pairs(result.potential_merges) : q[1] # q[2]


\* the second call has ended and was given the first call's filter stages in
\* another order
PermutedCallEnded ==
    call_no = 2 /\ args # first_args /\ pc \in { "done", "error" }

\* C20: two stage lists that are permutations of each other and hold only
\* filter stages give the same pair list on the same analyzer.
C20_FilterStagesCommute ==
    PermutedCallEnded
        => /\ pc = first_result.status
           /\ pc = "done"
               => result.potential_merges = first_result.result.potential_merges


\* C22: the correlogram stage leaves the correlogram data of the analyzer's
\* correlograms extension as it was: censoring and smoothing are done on a
\* copy of the pipeline's own.
C22_ExtensionUnchanged ==
    [][ (AtStep("correlogram") /\ analyzer.has_correlograms)
        => analyzer'.correlograms = analyzer.correlograms ]_vars


(***************************************************************************)
(* CircusMerging.run: merge rounds on the analyzer of the merging object   *)
(***************************************************************************)
MaxRounds == 4
MaxMerges == 1

\* unit ids of the analyzer, in the order of sorting.unit_ids
SortedIds(ids) ==
    CHOOSE f \in [0 .. (Cardinality(ids) - 1) -> ids] :
        \A i, j \in DOMAIN f : i < j => f[i] < f[j]

\* the lists of at most MaxMerges pairs get_potential_auto_merge can return
\* on the units ids: the True entries of a matrix that the stages have
\* narrowed from the initial one
DetectedMerges(ids) ==
    LET n == Cardinality(ids)
        candidates == { p \in Units \X Units :
                          p[1] < n /\ p[2] < n /\ InitialPairMask[p[1]][p[2]] }
    IN  { potential_merges([unit_ids |-> SortedIds(ids)],
                           [i \in Units |-> [j \in Units |-> <<i, j>> \in kept]]) :
            kept \in { k \in SUBSET candidates : Cardinality(k) <= MaxMerges } }

\* resolve_merging_graph: the connected components of the graph of the
\* merges that hold more than one unit
resolve_merging_graph(ids, merges) ==
    LET linked(u, v) == \E k \in 1 .. Len(merges) :
                           merges[k] = <<u, v>> \/ merges[k] = <<v, u>>
        reach[k \in 0 .. Cardinality(ids)] ==
            [u \in ids |->
                IF k = 0 THEN { u }
                ELSE reach[k - 1][u] \cup
                     { v \in ids : \E w \in reach[k - 1][u] : linked(w, v) }]
    IN  { g \in { reach[Cardinality(ids)][u] : u \in ids } : Cardinality(g) > 1 }

\* analyzer.merge_units: every group becomes one unit, the other units stay
merge_units(ids, units_to_merge) ==
    { u \in ids : \A g \in units_to_merge :
                     u \in g => \A v \in g : u <= v }

\* _get_new_sorting: (unit ids of new_analyzer, merges), for the lists the
\* two calls of get_potential_auto_merge return
get_new_sorting(c, merges, more_merges) ==
    LET all == (IF c.curation_kwargs THEN merges ELSE << >>)
               \o (IF c.temporal_splits_kwargs THEN more_merges ELSE << >>)
    IN  [ unit_ids |-> merge_units(c.unit_ids,
                                   resolve_merging_graph(c.unit_ids, all)),
          merges |-> all ]

InitCircus ==
    /\ NoPipeline
    /\ aw = NoCall
    /\ td = NoCall
    /\ cs = NoCall
    /\ nz = NoCall
    /\ th = NoCall
    /\ \E n \in 1 .. NumUnits, recursive \in BOOLEAN, kw \in BOOLEAN \X BOOLEAN :
          cm = [ pc |-> "run", recursive |-> recursive,
                 curation_kwargs |-> kw[1], temporal_splits_kwargs |-> kw[2],
                 unit_ids |-> { 10 + u : u \in 0 .. (n - 1) },
                 num_units |-> n, num_merges |-> 0, all_merges |-> << >> ]

\* one round: self.analyzer, merges = self._get_new_sorting()
CircusRound(c) ==
    \E merges, more_merges \in DetectedMerges(c.unit_ids) :
        LET new == get_new_sorting(c, merges, more_merges)
        IN  cm' = [c EXCEPT !.pc = "while",
                            !.unit_ids = new.unit_ids,
                            !.num_merges = Len(new.merges),
                            !.all_merges = Append(c.all_merges, new.merges)]

\* lines 91-93
CircusRun ==
    /\ cm.pc = "run"
    /\ CircusRound(cm)
    /\ UNCHANGED << pipeline, aw, td, cs, nz, th >>

\* lines 95-99: one more turn of the while loop
CircusLoop ==
    /\ cm.pc = "while"
    /\ cm.recursive /\ cm.num_merges > 0
    /\ Len(cm.all_merges) < MaxRounds
    /\ CircusRound(cm)
    /\ UNCHANGED << pipeline, aw, td, cs, nz, th >>

\* lines 101-104
CircusReturn ==
    /\ cm.pc = "while"
    /\ ~cm.recursive \/ cm.num_merges = 0
    /\ cm' = [cm EXCEPT !.pc = "returned"]
    /\ UNCHANGED << pipeline, aw, td, cs, nz, th >>

NextCircus == CircusRun \/ CircusLoop \/ CircusReturn

SpecCircus == InitCircus /\ [][NextCircus]_vars

\* C21: without recursive one round is run; with recursive a round that
\* detects a merge leaves fewer units than it found, no more rounds are run
\* than there were units, and the last list of all_merges is empty.
C21_RoundsBounded ==
    [][ /\ (cm.pc \in { "run", "while" } /\ cm'.pc = "while" /\ cm'.num_merges > 0)
            => Cardinality(cm'.unit_ids) < Cardinality(cm.unit_ids)
        /\ cm'.pc \in { "while", "returned" }
            => Len(cm'.all_merges) <= cm'.num_units
        /\ cm'.pc = "returned"
            => IF cm'.recursive
               THEN cm'.all_merges[Len(cm'.all_merges)] = << >>
               ELSE Len(cm'.all_merges) = 1
      ]_vars

====
